---- MODULE Spec2Model ----
(***************************************************************************)
(* PurgeCOSPathCache: a command-line program that loads a YAML             *)
(* configuration, validates it, builds a CDN client and a PurgePathCache   *)
(* request, performs the call and prints the outcome (src/main.go).        *)
(*                                                                         *)
(* Texts (error texts, printed lines) are sequences of fragments, so that  *)
(* fmt.Errorf / fmt.Printf are concatenations and "verbatim" is checkable. *)
(***************************************************************************)
EXTENDS Integers, Sequences, FiniteSets, TLC

VARIABLES argv, fs, pc, configPath, config, err, client, request, calls,
          response, out, exitCode, trace

vars == <<argv, fs, pc, configPath, config, err, client, request, calls,
          response, out, exitCode, trace>>

(***************************************************************************)
(* Bounds of the model.                                                    *)
(***************************************************************************)
\* longest purge_config.paths list written in a configuration file
MaxPaths == 2

(***************************************************************************)
(* Values.                                                                 *)
(***************************************************************************)
\* Go pointers: nil, or the address of a value
NilPtr == [set |-> FALSE]
StringPtr(v) == [set |-> TRUE, val |-> v]
BoolPtr(v) == [set |-> TRUE, val |-> v]
\* mutant: every pointer takes the address of the loop variable, so all of them
\* end on the last element
StringPtrs_LoopVar(vals) == [i \in 1..Len(vals) |-> StringPtr(vals[Len(vals)])]
StringPtrs(vals) == [i \in 1..Len(vals) |-> StringPtr(vals[i])]

\* Go errors: nil, an errors.New / fmt.Errorf value, a *TencentCloudSDKError,
\* or any other error of the SDK's transport
NilErr == [type |-> "nil", text |-> <<>>]
errorsNew(text) == [type |-> "errorString", text |-> text]
\* fmt.Errorf(format + "%v", e) / fmt.Errorf(format + "%s", s): no %w, so the
\* result wraps nothing
fmtErrorf(prefix, detail) == [type |-> "errorString", text |-> <<prefix>> \o detail]
\* err.Error()
ErrorText(e) == e.text
\* mutant: errors.As with a target no SDK error matches
AsSDKError_Never(e) == FALSE
\* errors.As(err, &tencentCloudSDKError)
AsSDKError(e) == e.type = "sdk"

\* the zero Config (var config Config)
ZeroConfig ==
  [TencentCloud |-> [SecretID |-> "", SecretKey |-> "", Region |-> ""],
   PurgeConfig |-> [Paths |-> <<>>, FlushType |-> "", UrlEncode |-> FALSE, Area |-> ""]]

(***************************************************************************)
(* The environment: command lines, the file system at the named path, the  *)
(* file's content, and what the SDK can answer.                            *)
(***************************************************************************)
SecretIDs == {"", "AKID"}
SecretKeys == {"", "key"}
Regions == {"", "ap-guangzhou"}
PathStrings == {"", "http://example.com/a.js", "example.com/b"}
FlushTypes == {"", "delete"}
Areas == {"", "mainland"}

RECURSIVE SeqsUpTo(_, _)
SeqsUpTo(S, n) ==
  IF n = 0 THEN {<<>>}
  ELSE LET shorter == SeqsUpTo(S, n - 1)
       IN  shorter \cup {Append(s, x) : s \in {t \in shorter : Len(t) = n - 1}, x \in S}

PathLists == SeqsUpTo(PathStrings, MaxPaths)

FieldNames == {"secret_id", "secret_key", "region", "paths", "flush_type", "url_encode", "area"}

\* YAML mappings that give every key of the schema
FullMappings ==
  {[k \in FieldNames |->
      CASE k = "secret_id" -> id
        [] k = "secret_key" -> key
        [] k = "region" -> region
        [] k = "paths" -> paths
        [] k = "flush_type" -> ft
        [] k = "url_encode" -> ue
        [] k = "area" -> area] :
     id \in SecretIDs, key \in SecretKeys, region \in Regions, paths \in PathLists,
     ft \in FlushTypes, ue \in BOOLEAN, area \in Areas}

\* keys a configuration file may leave out
OmittedKeys == {{}, {"area"}, {"paths"}, {"url_encode", "area"}, FieldNames}

Restrict(f, S) == [k \in S |-> f[k]]

\* file contents: not YAML at all, YAML of another shape than Config, or a mapping
FileData ==
  {[form |-> "malformed", fields |-> <<>>], [form |-> "mistyped", fields |-> <<>>]}
  \cup {[form |-> "mapping", fields |-> Restrict(m, FieldNames \ d)] :
          m \in FullMappings, d \in OmittedKeys}

NoData == [form |-> "none", fields |-> <<>>]

\* what is at the path the command line names: nothing (ENOENT), nothing because a
\* component of the path is a regular file (ENOTDIR), a directory, a file without
\* read permission, or a readable file
FileSystems ==
  {[exists |-> FALSE, stat |-> "ENOENT", read |-> "ENOENT", data |-> NoData],
   [exists |-> FALSE, stat |-> "ENOTDIR", read |-> "ENOTDIR", data |-> NoData],
   [exists |-> TRUE, stat |-> "ok", read |-> "EISDIR", data |-> NoData],
   [exists |-> TRUE, stat |-> "ok", read |-> "EACCES", data |-> NoData]}
  \cup {[exists |-> TRUE, stat |-> "ok", read |-> "ok", data |-> d] : d \in FileData}

CommandLines ==
  {<<>>, <<"-c", "alt.yaml">>, <<"-c">>, <<"-h">>, <<"-x">>, <<"extra">>,
   <<"-c", "alt.yaml", "-c", "config.yaml">>}

\* what cdn.NewClient can return as its error
ClientErrors == {NilErr, [type |-> "other", text |-> <<"client init failed">>]}

\* what client.PurgePathCache can return: a response and a nil error, or no response
\* and a *TencentCloudSDKError or another (transport) error
NilResponse == [set |-> FALSE, TaskId |-> ""]
PurgeReturns ==
  {[response |-> [set |-> TRUE, TaskId |-> t], err |-> NilErr] : t \in {"task-1", "task-2"}}
  \cup {[response |-> NilResponse, err |-> [type |-> "sdk", text |-> <<t>>]] :
          t \in {"[TencentCloudSDKError] Code=AuthFailure", "[TencentCloudSDKError] Code=InvalidParameter"}}
  \cup {[response |-> NilResponse, err |-> [type |-> "other", text |-> <<t>>]] :
          t \in {"dial tcp: i/o timeout"}}

\* response.ToJsonString()
ToJsonString(r) == <<"{\"Response\":{\"TaskId\":\"", r.TaskId, "\"}}">>

\* cdn.NewPurgePathCacheRequest(): every parameter unset
NewPurgePathCacheRequest ==
  [Paths |-> <<>>, FlushType |-> NilPtr, UrlEncode |-> NilPtr, Area |-> NilPtr]

(***************************************************************************)
(* flag.StringVar(&configPath, "c", "config.yaml", ...); flag.Parse()      *)
(* The command-line FlagSet stops at the first argument that is no flag,   *)
(* takes the argument after -c as its value, answers -h with the usage,    *)
(* and rejects any other flag and a -c without value.                      *)
(***************************************************************************)
IsFlagArg(s) == s \in {"-c", "-h", "-x"}

RECURSIVE parseFlags(_, _)
parseFlags(args, path) ==
  IF args = <<>> \/ ~IsFlagArg(Head(args))
    THEN [status |-> "ok", path |-> path, msg |-> <<>>]
  ELSE IF Head(args) = "-c"
    THEN IF Len(args) < 2
           THEN [status |-> "error", path |-> path,
                 msg |-> <<"flag needs an argument: ", "-c">>]
           ELSE parseFlags(SubSeq(args, 3, Len(args)), args[2])
  ELSE IF Head(args) = "-h"
    THEN [status |-> "help", path |-> path, msg |-> <<>>]
  ELSE [status |-> "error", path |-> path,
        msg |-> <<"flag provided but not defined: ", Head(args)>>]

\* exit status of the flag package after the usage was asked for: 0 since Go 1.15,
\* 2 before
HelpExitCodes == {0, 2}

(***************************************************************************)
(* loadConfig                                                              *)
(***************************************************************************)
\* os.Stat(configPath): nil or the errno
osStat(path) == fs.stat
\* os.IsNotExist(err)
osIsNotExist(errno) == errno = "ENOENT"
\* os.ReadFile(configPath)
osReadFile(path) ==
  IF fs.read = "ok" THEN [data |-> fs.data, err |-> NilErr]
  ELSE [data |-> NoData, err |-> [type |-> "other", text |-> <<"open ", path, ": ", fs.read>>]]

Field(fields, k, zero) == IF k \in DOMAIN fields THEN fields[k] ELSE zero

\* yaml.Unmarshal(data, &config): keys the file leaves out keep their zero value
yamlUnmarshal(data) ==
  IF data.form = "malformed"
    THEN [config |-> ZeroConfig, err |-> [type |-> "other", text |-> <<"yaml: did not find expected key">>]]
  ELSE IF data.form = "mistyped"
    THEN [config |-> ZeroConfig, err |-> [type |-> "other", text |-> <<"yaml: unmarshal errors">>]]
  ELSE [config |->
          [TencentCloud |->
             [SecretID |-> Field(data.fields, "secret_id", ""),
              SecretKey |-> Field(data.fields, "secret_key", ""),
              Region |-> Field(data.fields, "region", "")],
           PurgeConfig |->
             [Paths |-> Field(data.fields, "paths", <<>>),
              FlushType |-> Field(data.fields, "flush_type", ""),
              UrlEncode |-> Field(data.fields, "url_encode", FALSE),
              Area |-> Field(data.fields, "area", "")]],
        err |-> NilErr]

loadConfig(path) ==
  IF osIsNotExist(osStat(path))
    THEN [config |-> ZeroConfig, err |-> fmtErrorf("config file does not exist: ", <<path>>)]
  ELSE LET r == osReadFile(path)
       IN  IF r.err # NilErr
             THEN [config |-> ZeroConfig,
                   err |-> fmtErrorf("failed to read config file: ", ErrorText(r.err))]
           ELSE LET u == yamlUnmarshal(r.data)
                IN  IF u.err # NilErr
                      THEN [config |-> ZeroConfig,
                            err |-> fmtErrorf("failed to parse YAML config: ", ErrorText(u.err))]
                    ELSE [config |-> u.config, err |-> NilErr]

(***************************************************************************)
(* validateConfig                                                          *)
(***************************************************************************)
\* mutant: the secret_id rule is missing
validateConfig_NoSecretID(c) ==
  IF c.TencentCloud.SecretKey = ""
    THEN errorsNew(<<"secret_key is required in configuration">>)
  ELSE IF Len(c.PurgeConfig.Paths) = 0
    THEN errorsNew(<<"at least one path is required in purge_config.paths">>)
  ELSE IF c.PurgeConfig.FlushType = ""
    THEN errorsNew(<<"flush_type is required in purge_config">>)
  ELSE NilErr

\* mutant: secret_key is checked before secret_id
validateConfig_KeyFirst(c) ==
  IF c.TencentCloud.SecretKey = ""
    THEN errorsNew(<<"secret_key is required in configuration">>)
  ELSE IF c.TencentCloud.SecretID = ""
    THEN errorsNew(<<"secret_id is required in configuration">>)
  ELSE IF Len(c.PurgeConfig.Paths) = 0
    THEN errorsNew(<<"at least one path is required in purge_config.paths">>)
  ELSE IF c.PurgeConfig.FlushType = ""
    THEN errorsNew(<<"flush_type is required in purge_config">>)
  ELSE NilErr

\* mutant: a region is required too
validateConfig_RegionRequired(c) ==
  IF c.TencentCloud.SecretID = ""
    THEN errorsNew(<<"secret_id is required in configuration">>)
  ELSE IF c.TencentCloud.SecretKey = ""
    THEN errorsNew(<<"secret_key is required in configuration">>)
  ELSE IF c.TencentCloud.Region = ""
    THEN errorsNew(<<"region is required in configuration">>)
  ELSE IF Len(c.PurgeConfig.Paths) = 0
    THEN errorsNew(<<"at least one path is required in purge_config.paths">>)
  ELSE IF c.PurgeConfig.FlushType = ""
    THEN errorsNew(<<"flush_type is required in purge_config">>)
  ELSE NilErr

validateConfig(c) ==
  IF c.TencentCloud.SecretID = ""
    THEN errorsNew(<<"secret_id is required in configuration">>)
  ELSE IF c.TencentCloud.SecretKey = ""
    THEN errorsNew(<<"secret_key is required in configuration">>)
  ELSE IF Len(c.PurgeConfig.Paths) = 0
    THEN errorsNew(<<"at least one path is required in purge_config.paths">>)
  ELSE IF c.PurgeConfig.FlushType = ""
    THEN errorsNew(<<"flush_type is required in purge_config">>)
  ELSE NilErr

(***************************************************************************)
(* main: the request built from the configuration                          *)
(***************************************************************************)
\* mutant: Area is set whatever the configuration says
requestArea_Always(c, req) == StringPtr(c.PurgeConfig.Area)

requestArea(c, req) ==
  IF c.PurgeConfig.Area # "" THEN StringPtr(c.PurgeConfig.Area) ELSE req.Area

buildRequest(c) ==
  LET req == [NewPurgePathCacheRequest EXCEPT
                !.Paths = StringPtrs(c.PurgeConfig.Paths),
                !.FlushType = StringPtr(c.PurgeConfig.FlushType),
                !.UrlEncode = BoolPtr(c.PurgeConfig.UrlEncode)]
  IN  [req EXCEPT !.Area = requestArea(c, req)]

(***************************************************************************)
(* main, stage by stage.  os.Exit(n) is Exit(n); fmt.Printf is Printf.     *)
(***************************************************************************)
Printf(prefix, detail) == Append(out, <<prefix>> \o detail)

Exit(code) == pc' = "exited" /\ exitCode' = code

Init ==
  /\ argv \in CommandLines
  /\ fs \in FileSystems
  /\ pc = "flags"
  /\ configPath = "config.yaml"
  /\ config = ZeroConfig
  /\ err = NilErr
  /\ client = FALSE
  /\ request = NewPurgePathCacheRequest
  /\ calls = <<>>
  /\ response = NilResponse
  /\ out = <<>>
  /\ exitCode = 0
  /\ trace = <<>>

\* flag.Parse()
ParseFlags ==
  /\ pc = "flags"
  /\ trace' = Append(trace, "flags")
  /\ LET r == parseFlags(argv, configPath)
     IN  /\ configPath' = r.path
         /\ CASE r.status = "ok" -> pc' = "load" /\ UNCHANGED <<out, exitCode>>
              [] r.status = "help" ->
                   /\ out' = Append(out, <<"Usage">>)
                   /\ \E code \in HelpExitCodes : Exit(code)
              [] r.status = "error" ->
                   /\ out' = Append(Append(out, r.msg), <<"Usage">>)
                   /\ Exit(2)
  /\ UNCHANGED <<argv, fs, config, err, client, request, calls, response>>

\* config, err := loadConfig(configPath)
LoadConfig ==
  /\ pc = "load"
  /\ trace' = Append(trace, "load")
  /\ LET r == loadConfig(configPath)
     IN  /\ err' = r.err
         /\ IF r.err # NilErr
              THEN /\ out' = Printf("Error loading configuration: ", ErrorText(r.err))
                   /\ Exit(1)
                   /\ UNCHANGED config
              ELSE /\ config' = r.config
                   /\ pc' = "validate"
                   /\ UNCHANGED <<out, exitCode>>
  /\ UNCHANGED <<argv, fs, configPath, client, request, calls, response>>

\* mutant: the os.Exit(1) after the validation message is missing
Validate_NoExit ==
  /\ pc = "validate"
  /\ trace' = Append(trace, "validate")
  /\ LET e == validateConfig(config)
     IN  /\ out' = IF e # NilErr
                     THEN Printf("Configuration validation failed: ", ErrorText(e))
                     ELSE out
         /\ pc' = "client"
  /\ UNCHANGED <<argv, fs, configPath, config, err, client, request, calls, response, exitCode>>

\* if err := validateConfig(config); err != nil
Validate ==
  /\ pc = "validate"
  /\ trace' = Append(trace, "validate")
  /\ LET e == validateConfig(config)
     IN  IF e # NilErr
           THEN /\ out' = Printf("Configuration validation failed: ", ErrorText(e))
                /\ Exit(1)
           ELSE /\ pc' = "client"
                /\ UNCHANGED <<out, exitCode>>
  /\ UNCHANGED <<argv, fs, configPath, config, err, client, request, calls, response>>

\* credential, client profile, cdn.NewClient
NewClient ==
  /\ pc = "client"
  /\ trace' = Append(trace, "client")
  /\ \E e \in ClientErrors :
       /\ err' = e
       /\ IF e # NilErr
            THEN /\ out' = Printf("Error creating CDN client: ", ErrorText(e))
                 /\ Exit(1)
                 /\ UNCHANGED client
            ELSE /\ client' = TRUE
                 /\ pc' = "request"
                 /\ UNCHANGED <<out, exitCode>>
  /\ UNCHANGED <<argv, fs, configPath, config, request, calls, response>>

\* request := cdn.NewPurgePathCacheRequest() and its parameters
BuildRequest ==
  /\ pc = "request"
  /\ trace' = Append(trace, "request")
  /\ request' = buildRequest(config)
  /\ pc' = "call"
  /\ UNCHANGED <<argv, fs, configPath, config, err, client, calls, response, out, exitCode>>

\* mutant: the call is made again after a first attempt
PurgePathCache_Retry ==
  /\ pc = "call"
  /\ trace' = Append(trace, "call")
  /\ calls' = Append(Append(calls, request), request)
  /\ pc' = "await"
  /\ UNCHANGED <<argv, fs, configPath, config, err, client, request, response, out, exitCode>>

\* client.PurgePathCache(request): the request leaves
PurgePathCache ==
  /\ pc = "call"
  /\ trace' = Append(trace, "call")
  /\ calls' = Append(calls, request)
  /\ pc' = "await"
  /\ UNCHANGED <<argv, fs, configPath, config, err, client, request, response, out, exitCode>>

\* client.PurgePathCache(request): the blocking call returns
PurgeReturn ==
  /\ pc = "await"
  /\ \E r \in PurgeReturns : response' = r.response /\ err' = r.err
  /\ pc' = "print"
  /\ UNCHANGED <<argv, fs, configPath, config, client, request, calls, out, exitCode, trace>>

\* mutant: the os.Exit(1) after the 'Unexpected error' message is missing
PrintResult_FallThrough ==
  /\ pc = "print"
  /\ trace' = Append(trace, "print")
  /\ IF AsSDKError(err)
       THEN /\ out' = Printf("API error returned: ", ErrorText(err))
            /\ Exit(1)
     ELSE /\ out' = Append(IF err # NilErr
                             THEN Printf("Unexpected error: ", ErrorText(err))
                             ELSE out,
                           <<"Purge operation completed successfully: ">> \o ToJsonString(response))
          /\ Exit(0)
  /\ UNCHANGED <<argv, fs, configPath, config, err, client, request, calls, response>>

\* the handling of the call's outcome
PrintResult ==
  /\ pc = "print"
  /\ trace' = Append(trace, "print")
  /\ IF AsSDKError(err)
       THEN /\ out' = Printf("API error returned: ", ErrorText(err))
            /\ Exit(1)
     ELSE IF err # NilErr
       THEN /\ out' = Printf("Unexpected error: ", ErrorText(err))
            /\ Exit(1)
     ELSE /\ out' = Printf("Purge operation completed successfully: ", ToJsonString(response))
          /\ Exit(0)
  /\ UNCHANGED <<argv, fs, configPath, config, err, client, request, calls, response>>

Next ==
  \/ ParseFlags
  \/ LoadConfig
  \/ Validate
  \/ NewClient
  \/ BuildRequest
  \/ PurgePathCache
  \/ PurgeReturn
  \/ PrintResult

Spec == Init /\ [][Next]_vars

\* the process is scheduled until it exits, and the blocking calls return
FairSpec == Spec /\ WF_vars(Next)

(***************************************************************************)
(* Vocabulary of the properties, stated on the run's facts and not through *)
(* the operators above.                                                    *)
(***************************************************************************)
Last(s) == s[Len(s)]
Ran(stage) == \E i \in 1..Len(trace) : trace[i] = stage
JustRan(stage) == trace # <<>> /\ Last(trace) = stage
Exited == pc = "exited"

StageOrder == <<"flags", "load", "validate", "client", "request", "call", "print">>

\* the four rules of ConfigValidator, in the order the specification lists them
RuleViolated(c, i) ==
  CASE i = 1 -> c.TencentCloud.SecretID = ""
    [] i = 2 -> c.TencentCloud.SecretKey = ""
    [] i = 3 -> c.PurgeConfig.Paths = <<>>
    [] i = 4 -> c.PurgeConfig.FlushType = ""
RuleReason ==
  <<"secret_id is required in configuration",
    "secret_key is required in configuration",
    "at least one path is required in purge_config.paths",
    "flush_type is required in purge_config">>
RuleCount == Len(RuleReason)
Invalid(c) == \E i \in 1..RuleCount : RuleViolated(c, i)
FirstViolated(c) ==
  CHOOSE i \in 1..RuleCount :
    RuleViolated(c, i) /\ \A j \in 1..RuleCount : RuleViolated(c, j) => i <= j

\* the outcome of each stage, read from the environment and the run
CommandLineAccepted == Ran("load")
LoadSucceeded == Ran("validate")
FileLoads == fs.exists /\ fs.read = "ok" /\ fs.data.form = "mapping"
CallSucceeded == Len(calls) = 1 /\ err = NilErr /\ response.set
AllSucceeded ==
  /\ FileLoads
  /\ ~Invalid(config)
  /\ client
  /\ CallSucceeded

ValidationMessage(line) == Head(line) = "Configuration validation failed: "

(***************************************************************************)
(* C1: PurgePathCache is never reached unless validation succeeded: a run  *)
(* whose loaded configuration has an empty secret_id, secret_key, paths or *)
(* flush_type ends in exit status 1 with the validation message and with   *)
(* no network call made.                                                   *)
(***************************************************************************)
C1_NoCallUnlessValid ==
  /\ (calls # <<>> \/ pc \in {"client", "request", "call", "await", "print"})
       => LoadSucceeded /\ ~Invalid(config)
  /\ (LoadSucceeded /\ Invalid(config) /\ pc # "validate")
       => /\ Exited
          /\ exitCode = 1
          /\ calls = <<>>
          /\ Len(out) = 1 /\ ValidationMessage(out[1])

C1_Witness ==
  /\ Exited /\ LoadSucceeded
  /\ config.TencentCloud.SecretID = ""
  /\ config.TencentCloud.SecretKey # ""
  /\ config.PurgeConfig.Paths # <<>>
  /\ config.PurgeConfig.FlushType # ""
  /\ exitCode = 1 /\ calls = <<>>

(***************************************************************************)
(* C2: validateConfig reports exactly one reason, the one of the first     *)
(* violated rule in the order secret_id, secret_key, paths, flush_type,    *)
(* and reports nothing iff no rule is violated.                            *)
(***************************************************************************)
C2_FirstViolatedRule ==
  JustRan("validate") =>
    IF Invalid(config)
      THEN /\ Exited
           /\ Len(out) = 1
           /\ out[1] = <<"Configuration validation failed: ", RuleReason[FirstViolated(config)]>>
      ELSE /\ pc = "client"
           /\ out = <<>>

\* every rule violated at once: the reason is the first rule's
C2_Witness ==
  /\ JustRan("validate") /\ Exited
  /\ \A i \in 1..RuleCount : RuleViolated(config, i)
  /\ out = <<(<<"Configuration validation failed: ", RuleReason[1]>>)>>

(***************************************************************************)
(* C3: the request passed to PurgePathCache carries the configuration's    *)
(* paths (same length, order and contents) and its flush_type and          *)
(* url_encode.                                                             *)
(***************************************************************************)
C3_RequestCopiesConfig ==
  \A n \in 1..Len(calls) :
    LET req == calls[n]
        pcfg == config.PurgeConfig
    IN  /\ Len(req.Paths) = Len(pcfg.Paths)
        /\ \A i \in 1..Len(pcfg.Paths) : req.Paths[i].set /\ req.Paths[i].val = pcfg.Paths[i]
        /\ req.FlushType.set /\ req.FlushType.val = pcfg.FlushType
        /\ req.UrlEncode.set /\ req.UrlEncode.val = pcfg.UrlEncode

C3_Witness ==
  /\ Len(calls) = 1
  /\ Len(config.PurgeConfig.Paths) = 2
  /\ config.PurgeConfig.Paths[1] # config.PurgeConfig.Paths[2]
  /\ config.PurgeConfig.UrlEncode
  /\ calls[1].Paths[1].val = config.PurgeConfig.Paths[1]
  /\ calls[1].Paths[2].val = config.PurgeConfig.Paths[2]

(***************************************************************************)
(* C4: the request's Area is unset iff the configured area is the empty    *)
(* string, and equals the configured area otherwise.                       *)
(***************************************************************************)
C4_AreaOmittedIffEmpty ==
  \A n \in 1..Len(calls) :
    /\ ~calls[n].Area.set <=> config.PurgeConfig.Area = ""
    /\ calls[n].Area.set => calls[n].Area.val = config.PurgeConfig.Area

C4_Witness ==
  /\ Len(calls) = 1
  /\ config.PurgeConfig.Area = ""
  /\ calls[1].Area = NilPtr

\* the other direction's case: a configured area reaches the request
C4_WitnessSet ==
  /\ Len(calls) = 1
  /\ calls[1].Area = StringPtr("mainland")

(***************************************************************************)
(* C5 as stated: every run ends with exit status 0 or 1, and 0 iff         *)
(* loading, validation, client construction and the call all succeeded.    *)
(***************************************************************************)
C5_Original ==
  Exited =>
    /\ exitCode \in {0, 1}
    /\ exitCode = 0 <=> AllSucceeded

(***************************************************************************)
(* C5 amended: every run whose command line flag.Parse accepts ends with   *)
(* exit status 0 or 1, and 0 iff loading, validation, client construction  *)
(* and the call all succeeded, the serialized result being printed then;   *)
(* every failure of a stage from loading on yields 1.                      *)
(***************************************************************************)
C5_ExitStatus ==
  (Exited /\ CommandLineAccepted) =>
    /\ exitCode \in {0, 1}
    /\ exitCode = 0 <=> AllSucceeded
    /\ Len(out) = 1
    /\ exitCode = 0 =>
         out[1] = <<"Purge operation completed successfully: ">> \o ToJsonString(response)
    /\ exitCode = 1 => Head(out[1]) # "Purge operation completed successfully: "

C5_Witness ==
  /\ Exited /\ CommandLineAccepted /\ AllSucceeded
  /\ exitCode = 0
  /\ out = <<(<<"Purge operation completed successfully: ">> \o ToJsonString(response))>>

\* a failure after the call was made: exit status 1
C5_WitnessFailure ==
  /\ Exited /\ Len(calls) = 1 /\ err.type = "other" /\ exitCode = 1

(***************************************************************************)
(* C6 as stated: loadConfig classifies its failure by the first failing    *)
(* step in the order existence, read, parse: a path that does not exist    *)
(* yields the not-found error, a path that exists and cannot be read the   *)
(* read error, readable content of another shape the parse error, and a    *)
(* configuration is returned only when all three steps succeed.            *)
(***************************************************************************)
C6_Original ==
  JustRan("load") =>
    /\ ~fs.exists => Head(ErrorText(err)) = "config file does not exist: "
    /\ (fs.exists /\ fs.read # "ok") => Head(ErrorText(err)) = "failed to read config file: "
    /\ (fs.exists /\ fs.read = "ok" /\ fs.data.form # "mapping")
         => Head(ErrorText(err)) = "failed to parse YAML config: "
    /\ (err = NilErr /\ pc = "validate") <=> FileLoads

(***************************************************************************)
(* C7: a structured provider error prints exactly one line, the API-error  *)
(* message with the error's text verbatim, and exits 1 with no second      *)
(* call; any other error prints only the 'Unexpected error' line and       *)
(* exits 1.                                                                *)
(***************************************************************************)
C7_RemoteErrorReport ==
  (JustRan("print") /\ err # NilErr) =>
    /\ Exited /\ exitCode = 1
    /\ Len(calls) = 1
    /\ Len(out) = 1
    /\ out[1] = <<(IF err.type = "sdk" THEN "API error returned: " ELSE "Unexpected error: ")>>
                  \o err.text

C7_Witness ==
  /\ JustRan("print") /\ err.type = "sdk"
  /\ out = <<(<<"API error returned: ", "[TencentCloudSDKError] Code=AuthFailure">>)>>
  /\ exitCode = 1

C7_WitnessUnexpected ==
  /\ JustRan("print") /\ err.type = "other"
  /\ out = <<(<<"Unexpected error: ", "dial tcp: i/o timeout">>)>>

(***************************************************************************)
(* C8 as stated: exactly one network operation is performed per process    *)
(* invocation, runs ending in a configuration, validation or               *)
(* client-construction failure included.                                   *)
(***************************************************************************)
C8_Original == Exited => Len(calls) = 1

(***************************************************************************)
(* C8 amended: at most one network operation is performed per process      *)
(* invocation: exactly one on the runs that pass command-line parsing,     *)
(* loading, validation and client construction, and none on the runs that  *)
(* end in a failure of one of those stages.                                *)
(***************************************************************************)
C8_AtMostOneCall ==
  /\ Len(calls) <= 1
  /\ Exited =>
       (Len(calls) = 1 <=> (CommandLineAccepted /\ FileLoads /\ ~Invalid(config) /\ client))

C8_Witness == Exited /\ Len(calls) = 1 /\ exitCode = 0

\* a run that ends before the call: no network operation
C8_WitnessNone == Exited /\ Ran("client") /\ ~client /\ calls = <<>>

(***************************************************************************)
(* C9: the stages run in the order flags, load, validate, build client,    *)
(* build request, call, print, each at most once and only after every      *)
(* earlier one succeeded; nothing runs after a stage printed its failure;  *)
(* and every run reaches its exit once the blocking calls return.          *)
(***************************************************************************)
StagesInOrder ==
  /\ Len(trace) <= Len(StageOrder)
  /\ \A i \in 1..Len(trace) : trace[i] = StageOrder[i]
  /\ exitCode # 0 => Exited

C9_LinearStages ==
  /\ []StagesInOrder
  /\ [][out # <<>> => (trace' = trace /\ pc' = pc)]_vars
  /\ <>Exited

C9_Witness == Exited /\ trace = StageOrder

\* a failed stage ends the run
C9_WitnessShortCircuit == Exited /\ trace = <<"flags", "load", "validate">> /\ exitCode = 1

(***************************************************************************)
(* C10: the outcome of validation depends only on whether secret_id is     *)
(* empty, secret_key is empty, paths has length zero and flush_type is     *)
(* empty: region, area, url_encode and the contents of the path entries    *)
(* never change it, and a configuration passing the four rules proceeds    *)
(* to client construction and the call.                                    *)
(***************************************************************************)
\* the configurations that differ from c in the fields no rule reads
SameFacts(c) ==
  {[TencentCloud |-> [c.TencentCloud EXCEPT !.Region = r],
    PurgeConfig |-> [c.PurgeConfig EXCEPT !.Paths = p, !.UrlEncode = u, !.Area = a]] :
     r \in Regions, u \in BOOLEAN, a \in Areas,
     p \in {q \in PathLists : (q = <<>>) <=> (c.PurgeConfig.Paths = <<>>)}}

C10_OnlyFourFacts ==
  /\ JustRan("validate") =>
       /\ pc = "client" <=> ~Invalid(config)
       /\ \A c2 \in SameFacts(config) :
            validateConfig(c2) = (IF Exited THEN errorsNew(Tail(out[1])) ELSE NilErr)
  /\ (Exited /\ LoadSucceeded /\ ~Invalid(config) /\ client) => Len(calls) = 1

C10_Witness ==
  /\ Len(calls) = 1
  /\ config.TencentCloud.Region = ""
  /\ \E i \in 1..Len(config.PurgeConfig.Paths) : config.PurgeConfig.Paths[i] = ""
  /\ \E i \in 1..Len(config.PurgeConfig.Paths) : config.PurgeConfig.Paths[i] = "example.com/b"

====
